---- MODULE Spec2Model ----
(***************************************************************************)
(* Model of the feature pipeline of advocacy_content_rag:                  *)
(*   src/src/feature_pipeline/data_normalization.py  (ExcelLoader)         *)
(*   src/src/feature_pipeline/cleaning.py            (TranscriptCleaner)   *)
(*   src/src/feature_pipeline/feature_pipeline.py    (FeaturePipeline)     *)
(*   src/src/core/models.py                          (RawDataRow)          *)
(*                                                                         *)
(* Strings are sequences of tokens.  A token stands for a run of           *)
(* characters that the code never looks inside: a whitespace character, a  *)
(* URL scheme, a network keyword, a word.  Width gives the number of       *)
(* characters of a token, IsAscii whether all of them are 7-bit, ToLower   *)
(* its str.lower().  Python None and pandas NaN/NA are the value None.     *)
(***************************************************************************)
EXTENDS Integers, Sequences, FiniteSets, Bags, TLC

VARIABLES
    \* ExcelLoader.load / _process_sheet
    sheets,             \* the sheets read so far: <<[name, ncols, rows]>>, the last one being scanned
    ld_pc,              \* "load" (between sheets), "scan" (inside _process_sheet), "done"
    current_sub_topic,  \* _process_sheet's running sub-topic
    sheet_rows,         \* _process_sheet's local list `rows`
    loaded,             \* load()'s list `rows`
    \* TranscriptCleaner
    dropped,            \* self._dropped: rule name -> table of rejected rows
    clean_calls,        \* 0 until clean() is first invoked on the cleaner, 1 from then on
    call,               \* the last call on the cleaner / pipeline and what it returned
    \* files of FeaturePipeline
    output_file,        \* the file at output_path: [exists, rows]
    dropped_file        \* the file at dropped_path: [exists, rows]

vars == <<sheets, ld_pc, current_sub_topic, sheet_rows, loaded,
          dropped, clean_calls, call, output_file, dropped_file>>

cleanerVars == <<dropped, clean_calls>>
fileVars == <<output_file, dropped_file>>

-----------------------------------------------------------------------------
(* Strings *)

None == <<"<None>">>
SP == " "

\* str.lower() of one token
ToLower(c) ==
    CASE c = "HTTP://" -> "http://"
      [] c = "INSTAGRAM" -> "instagram"
      [] c = "Antidisestablishmentarianism" -> "antidisestablishmentarianism"
      [] OTHER -> c

\* number of characters of one token; only transcripts are ever measured
Width(c) ==
    CASE c \in {"antidisestablishmentarianism", "Antidisestablishmentarianism"} -> 28
      [] c = "electroencephalographically" -> 27
      [] c = "counterrevolutionaries" -> 22
      [] c \in {"http://", "HTTP://"} -> 7
      [] c \in {"instagram", "INSTAGRAM"} -> 9
      [] c = "youtu" -> 5
      [] c \in {".com", "done", "shalom"} -> 4
      [] c = "nan" -> 3
      [] c \in {"ok", "/a", "/b"} -> 2
      [] OTHER -> 1

\* "shalom" stands for a word written in Hebrew letters
IsAscii(c) == c # "shalom"

IsSpace(c) == c = SP

RECURSIVE StrLen(_)
StrLen(s) == IF s = <<>> THEN 0 ELSE Width(Head(s)) + StrLen(Tail(s))

Lower(s) == [i \in 1..Len(s) |-> ToLower(s[i])]

RECURSIVE LStrip(_)
LStrip(s) == IF s # <<>> /\ IsSpace(Head(s)) THEN LStrip(Tail(s)) ELSE s

RECURSIVE RStrip(_)
RStrip(s) == IF s # <<>> /\ IsSpace(s[Len(s)]) THEN RStrip(SubSeq(s, 1, Len(s) - 1)) ELSE s

\* str.strip()
Strip(s) == RStrip(LStrip(s))

\* str.split(): the maximal runs of non-whitespace
RECURSIVE SplitFrom(_, _)
SplitFrom(s, word) ==
    IF s = <<>> THEN (IF word = <<>> THEN <<>> ELSE <<word>>)
    ELSE IF IsSpace(Head(s))
         THEN (IF word = <<>> THEN <<>> ELSE <<word>>) \o SplitFrom(Tail(s), <<>>)
         ELSE SplitFrom(Tail(s), Append(word, Head(s)))

Split(s) == SplitFrom(s, <<>>)

Range(s) == {s[i] : i \in 1..Len(s)}

\* astype(str): a missing value (NaN) becomes the text "nan"
AsStr(v) == IF v = None THEN <<"nan">> ELSE v

\* Python truthiness of an Optional[str]
Truthy(v) == v # None /\ v # <<>>

-----------------------------------------------------------------------------
(* Configuration (feature_pipeline_config.json) and RawDataRow *)

SocialNetworks == << <<"instagram", "Instagram">>, <<"youtu", "YouTube">> >>
DefaultSubTopic == <<"General">>
UnknownQuestion == <<"Unknown Question">>
NoLinkNetwork == "No Link"
OtherNetwork == "Other"

\* hashlib.md5(...).hexdigest(), an ideal hash: equal digests iff equal content
Md5(s) == <<"md5", s>>

\* ExcelLoader._hash
Hash(content, link) == Md5(content \o (IF Truthy(link) THEN link ELSE <<>>))

\* ExcelLoader._safe_str
SafeStr(row, idx) ==
    IF idx < Len(row) /\ row[idx + 1] # None
    THEN (IF Strip(row[idx + 1]) # <<>> THEN Strip(row[idx + 1]) ELSE None)
    ELSE None

RECURSIVE FirstNetwork(_, _)
FirstNetwork(link_lower, nets) ==
    IF nets = <<>> THEN OtherNetwork
    ELSE IF Head(nets)[1] \in Range(link_lower) THEN Head(nets)[2]
         ELSE FirstNetwork(link_lower, Tail(nets))

\* ExcelLoader._detect_network
DetectNetwork(link) ==
    IF ~Truthy(link) THEN NoLinkNetwork ELSE FirstNetwork(Lower(link), SocialNetworks)

\* RawDataRow.clean_link
CleanLink(v) ==
    IF Truthy(v) /\ Lower(v) \in {<<"nan">>, <<"none">>, <<>>} THEN None
    ELSE IF Truthy(v) THEN Strip(v) ELSE None

\* RawDataRow(...)
RawDataRow(id, main_subject, sub_topic, question, link, social_network) ==
    [id |-> id, main_subject |-> main_subject, sub_topic |-> sub_topic,
     question |-> question, link |-> CleanLink(link), social_network |-> social_network]

-----------------------------------------------------------------------------
(* ExcelLoader *)

\* the sub-topic a sheet scan starts with; prev is the value the previous scan ended with
InitialSubTopicCarried(prev) == prev

InitialSubTopic(prev) == DefaultSubTopic

\* one iteration of the loop of _process_sheet, the header test made before the data test
ProcessRowHeaderFirst(sheet_name, cur, row) ==
    LET col_a == SafeStr(row, 0)
        col_b == SafeStr(row, 1)
        col_c == SafeStr(row, 2)
        question == IF Truthy(col_a) THEN col_a ELSE UnknownQuestion
    IN  IF ~Truthy(col_a) /\ ~Truthy(col_b) THEN [cur |-> cur, out |-> <<>>]
        ELSE IF Truthy(col_a) /\ ~Truthy(col_c) THEN [cur |-> col_a, out |-> <<>>]
        ELSE IF Truthy(col_b) \/ Truthy(col_c)
        THEN [cur |-> cur,
              out |-> <<RawDataRow(Hash(question, col_b), sheet_name, cur, question,
                                   col_b, DetectNetwork(col_b))>>]
        ELSE [cur |-> cur, out |-> <<>>]

\* one iteration of the loop of _process_sheet: the new sub-topic and the records appended
\* (every field passed to RawDataRow is a str or None, so its validation does not fail)
ProcessRow(sheet_name, cur, row) ==
    LET col_a == SafeStr(row, 0)
        col_b == SafeStr(row, 1)
        col_c == SafeStr(row, 2)
        question == IF Truthy(col_a) THEN col_a ELSE UnknownQuestion
    IN  IF ~Truthy(col_a) /\ ~Truthy(col_b) THEN [cur |-> cur, out |-> <<>>]
        ELSE IF Truthy(col_b) \/ Truthy(col_c)
        THEN [cur |-> cur,
              out |-> <<RawDataRow(Hash(question, col_b), sheet_name, cur, question,
                                   col_b, DetectNetwork(col_b))>>]
        ELSE IF Truthy(col_a) THEN [cur |-> col_a, out |-> <<>>]
        ELSE [cur |-> cur, out |-> <<>>]

RECURSIVE ScanRows(_, _, _)
ScanRows(sheet_name, cur, rs) ==
    IF rs = <<>> THEN <<>>
    ELSE LET step == ProcessRow(sheet_name, cur, Head(rs))
         IN  step.out \o ScanRows(sheet_name, step.cur, Tail(rs))

\* ExcelLoader._process_sheet
ProcessSheet(sheet) == ScanRows(sheet.name, InitialSubTopic(DefaultSubTopic), sheet.rows)

\* ExcelLoader.load
RECURSIVE Load(_)
Load(wb) ==
    IF wb = <<>> THEN <<>>
    ELSE (IF Head(wb).rows # <<>> THEN ProcessSheet(Head(wb)) ELSE <<>>) \o Load(Tail(wb))

-----------------------------------------------------------------------------
(* Bounds and input domains of the sheet scan.  The rows of a sheet are drawn  *)
(* one by one as itertuples() yields them; `sheets` keeps what was read.       *)

MaxSheets == 2
MaxRows == 3

CellA == {None, <<"X">>, <<SP, "Y", SP>>}
CellB == {None, <<"http://", "instagram", "/a">>}
CellC == {None, <<"done">>}

\* the tuples itertuples() yields for a sheet of ncols columns
SheetRows(ncols) ==
    IF ncols = 2 THEN {<<a, b>> : a \in CellA, b \in CellB}
    ELSE {<<a, b, c>> : a \in CellA, b \in CellB, c \in CellC}

SheetName(i) == IF i = 1 THEN "S1" ELSE IF i = 2 THEN "S2" ELSE "S3"

RECURSIVE TotalRows(_)
TotalRows(wb) == IF wb = <<>> THEN 0 ELSE Len(Head(wb).rows) + TotalRows(Tail(wb))

NoCall == [op |-> "none"]

\* a path at which no file exists
NoFile == [exists |-> FALSE, rows |-> <<>>]

File(rows) == [exists |-> TRUE, rows |-> rows]

Init ==
    /\ sheets = <<>>
    /\ ld_pc = "load"
    /\ current_sub_topic = DefaultSubTopic
    /\ sheet_rows = <<>>
    /\ loaded = <<>>
    /\ dropped = <<>>
    /\ clean_calls = 0
    /\ call = NoCall
    /\ output_file = NoFile
    /\ dropped_file = NoFile

\* load(): `if not df.empty` is false, the sheet contributes nothing
SkipEmptySheet ==
    /\ ld_pc = "load"
    /\ Len(sheets) < MaxSheets
    /\ \E ncols \in {2, 3} :
        sheets' = Append(sheets, [name |-> SheetName(Len(sheets) + 1), ncols |-> ncols, rows |-> <<>>])
    /\ UNCHANGED <<ld_pc, current_sub_topic, sheet_rows, loaded>>
    /\ UNCHANGED <<cleanerVars, call, fileVars>>

\* load() calls _process_sheet on a non-empty sheet: lines 34-35
StartSheet ==
    /\ ld_pc = "load"
    /\ Len(sheets) < MaxSheets
    /\ TotalRows(sheets) < MaxRows
    /\ \E ncols \in {2, 3} :
        sheets' = Append(sheets, [name |-> SheetName(Len(sheets) + 1), ncols |-> ncols, rows |-> <<>>])
    /\ ld_pc' = "scan"
    /\ current_sub_topic' = InitialSubTopic(current_sub_topic)
    /\ sheet_rows' = <<>>
    /\ UNCHANGED loaded
    /\ UNCHANGED <<cleanerVars, call, fileVars>>

\* one iteration of `for row in df.itertuples(...)`
ScanRow ==
    /\ ld_pc = "scan"
    /\ TotalRows(sheets) < MaxRows
    /\ LET n == Len(sheets)
           sheet == sheets[n]
       IN  \E row \in SheetRows(sheet.ncols) :
             LET step == ProcessRow(sheet.name, current_sub_topic, row)
             IN  /\ sheets' = [sheets EXCEPT ![n].rows = Append(@, row)]
                 /\ current_sub_topic' = step.cur
                 /\ sheet_rows' = sheet_rows \o step.out
    /\ UNCHANGED <<ld_pc, loaded>>
    /\ UNCHANGED <<cleanerVars, call, fileVars>>

\* _process_sheet returns and load() extends its list
FinishSheet ==
    /\ ld_pc = "scan"
    /\ sheets[Len(sheets)].rows # <<>>
    /\ loaded' = loaded \o sheet_rows
    /\ ld_pc' = "load"
    /\ UNCHANGED <<sheets, current_sub_topic, sheet_rows>>
    /\ UNCHANGED <<cleanerVars, call, fileVars>>

\* load() returns
FinishLoad ==
    /\ ld_pc = "load"
    /\ ld_pc' = "done"
    /\ UNCHANGED <<sheets, current_sub_topic, sheet_rows, loaded>>
    /\ UNCHANGED <<cleanerVars, call, fileVars>>

NextLoader == SkipEmptySheet \/ StartSheet \/ ScanRow \/ FinishSheet \/ FinishLoad

SpecLoader == Init /\ [][NextLoader]_vars

-----------------------------------------------------------------------------
(* Claims about the sheet scan *)

NonEmptyCell(row, idx) == SafeStr(row, idx) # None

IsHeaderRow(row) == NonEmptyCell(row, 0) /\ ~NonEmptyCell(row, 1) /\ ~NonEmptyCell(row, 2)

YieldsRecord(row) ==
    /\ NonEmptyCell(row, 1) \/ NonEmptyCell(row, 2)
    /\ NonEmptyCell(row, 0) \/ NonEmptyCell(row, 1)

\* the indices of the rows of a sheet that yield a record, in order
RecordRows(rows) == SelectSeq([i \in 1..Len(rows) |-> i], LAMBDA i : YieldsRecord(rows[i]))

\* cell A of the most recent header row before row i, or the default
SubTopicAt(rows, i) ==
    LET hs == {j \in 1..(i - 1) : IsHeaderRow(rows[j])}
    IN  IF hs = {} THEN DefaultSubTopic
        ELSE SafeStr(rows[CHOOSE j \in hs : \A k \in hs : k <= j], 0)

\* the records the scan has produced for sheet number s
RecordsOf(s) ==
    IF s = Len(sheets) /\ ld_pc = "scan" THEN sheet_rows
    ELSE SelectSeq(loaded, LAMBDA r : r.main_subject = sheets[s].name)

\* C7: within one sheet every record's sub_topic is cell A of the most recent
\* header row preceding the record's row, or the configured default when no
\* header row precedes it; a header of an earlier sheet never carries over.
C7_SubTopicSticky ==
    \A s \in 1..Len(sheets) :
        LET rows == sheets[s].rows
            idx == RecordRows(rows)
            recs == RecordsOf(s)
        IN  /\ Len(recs) = Len(idx)
            /\ \A k \in 1..Len(recs) : recs[k].sub_topic = SubTopicAt(rows, idx[k])

\* a record of a second sheet that precedes any header there, after a first sheet that ended under a header
C7_Witness ==
    /\ Len(sheets) = 2
    /\ ld_pc = "load"
    /\ \E r \in Range(loaded) : r.main_subject = "S1" /\ r.sub_topic # DefaultSubTopic
    /\ \E r \in Range(loaded) : r.main_subject = "S2" /\ r.sub_topic = DefaultSubTopic

ScannedRow == sheets'[Len(sheets')].rows[Len(sheets'[Len(sheets')].rows)]

\* C9: a row with non-empty cells A and B yields exactly one record and leaves
\* current_sub_topic unchanged, whatever cell C holds; current_sub_topic changes
\* only on a row with A non-empty and B and C both empty.
C9_DataRowNeverHeader ==
    [][(ld_pc = "scan" /\ ld_pc' = "scan" /\ sheets' # sheets) =>
         /\ (NonEmptyCell(ScannedRow, 0) /\ NonEmptyCell(ScannedRow, 1)) =>
                /\ Len(sheet_rows') = Len(sheet_rows) + 1
                /\ SubSeq(sheet_rows', 1, Len(sheet_rows)) = sheet_rows
                /\ sheet_rows'[Len(sheet_rows')].link = SafeStr(ScannedRow, 1)
                /\ current_sub_topic' = current_sub_topic
         /\ current_sub_topic' # current_sub_topic => IsHeaderRow(ScannedRow)]_vars

\* a row with A, B and C all non-empty was scanned under a header and produced a record
C9_Witness ==
    /\ ld_pc = "scan"
    /\ Len(sheets[Len(sheets)].rows) >= 2
    /\ LET rows == sheets[Len(sheets)].rows
           row == rows[Len(rows)]
       IN  /\ NonEmptyCell(row, 0) /\ NonEmptyCell(row, 1) /\ NonEmptyCell(row, 2)
           /\ IsHeaderRow(rows[Len(rows) - 1])
    /\ sheet_rows # <<>>
    /\ sheet_rows[Len(sheet_rows)].sub_topic = current_sub_topic
    /\ current_sub_topic # DefaultSubTopic

-----------------------------------------------------------------------------
(* TranscriptCleaner *)

text_col == "transcript"
min_length == 80
\* unique_ratio = 0.3 as the fraction unique_ratio_num / unique_ratio_den
unique_ratio_num == 3
unique_ratio_den == 10

\* the candidate text taken without str.strip()
CandidateTextUnstripped(row) == AsStr(row.transcript)

\* df[self.text_col].astype(str).str.strip() for one row
CandidateText(row) == Strip(AsStr(row.transcript))

\* rule "short": t.str.len() < self.min_length
IsShort(t) == StrLen(t) < min_length

\* rule "non_english": t.str.contains(_NON_ASCII, na=False)
IsNonEnglish(t) == \E i \in 1..Len(t) : ~IsAscii(t[i])

\* TranscriptCleaner._is_repetitive
IsRepetitive(t) ==
    LET words == Split(Lower(t))
    IN  words # <<>> /\ unique_ratio_den * Cardinality(Range(words)) < unique_ratio_num * Len(words)

RuleNames == <<"short", "non_english", "repetitive">>

Mask(name, t) ==
    CASE name = "short" -> IsShort(t)
      [] name = "non_english" -> IsNonEnglish(t)
      [] name = "repetitive" -> IsRepetitive(t)

\* the rule loop with every mask taken over the table as it was passed in
RECURSIVE ApplyRulesIndependently(_, _)
ApplyRulesIndependently(rows, names) ==
    IF names = <<>> THEN [df |-> rows, dropped |-> <<>>]
    ELSE LET hit(r) == Mask(Head(names), CandidateText(r))
             rest == ApplyRulesIndependently(rows, Tail(names))
         IN  [df |-> SelectSeq(rest.df, LAMBDA r : ~hit(r)),
              dropped |-> <<[rule |-> Head(names), rows |-> SelectSeq(rows, hit)]>> \o rest.dropped]

\* the rule loop of clean(): each mask is taken over what the previous rule left
RECURSIVE ApplyRules(_, _)
ApplyRules(rows, names) ==
    IF names = <<>> THEN [df |-> rows, dropped |-> <<>>]
    ELSE LET hit(r) == Mask(Head(names), CandidateText(r))
             rest == ApplyRules(SelectSeq(rows, LAMBDA r : ~hit(r)), Tail(names))
         IN  [df |-> rest.df,
              dropped |-> <<[rule |-> Head(names), rows |-> SelectSeq(rows, hit)]>> \o rest.dropped]

\* TranscriptCleaner.clean: the returned rows and the new self._dropped
Clean(table, old_dropped) ==
    IF text_col \notin table.columns THEN [df |-> table.rows, dropped |-> old_dropped]
    ELSE ApplyRules(table.rows, RuleNames)

RECURSIVE ConcatRows(_)
ConcatRows(buckets) == IF buckets = <<>> THEN <<>> ELSE Head(buckets).rows \o ConcatRows(Tail(buckets))

\* DataFrame.drop_duplicates(): the first occurrence of every row
RECURSIVE DropDuplicates(_)
DropDuplicates(rows) ==
    IF rows = <<>> THEN <<>>
    ELSE LET init == DropDuplicates(SubSeq(rows, 1, Len(rows) - 1))
             last == rows[Len(rows)]
         IN  IF last \in Range(init) THEN init ELSE Append(init, last)

NoRule == "<None>"

\* TranscriptCleaner.get_dropped
GetDropped(d, rule) ==
    IF rule # NoRule /\ rule # ""
    THEN IF \E i \in 1..Len(d) : d[i].rule = rule
         THEN [status |-> "ok", rows |-> d[CHOOSE i \in 1..Len(d) : d[i].rule = rule].rows]
         ELSE [status |-> "ok", rows |-> <<>>]
    ELSE IF d = <<>>
         THEN [status |-> "ValueError", rows |-> <<>>]
         ELSE [status |-> "ok", rows |-> DropDuplicates(ConcatRows(d))]

-----------------------------------------------------------------------------
(* Direct calls on a TranscriptCleaner *)

MaxTableRows == 2

LongA == "antidisestablishmentarianism"
LongB == "electroencephalographically"
LongC == "counterrevolutionaries"

\* 79 characters, three distinct words
Text79 == <<LongA, SP, LongB, SP, LongC>>
\* 82 characters, four distinct words
TextGood == <<LongA, SP, LongB, SP, LongC, SP, "ok">>
\* 84 characters, one of the words is not ASCII
TextHebrew == <<LongA, SP, LongB, SP, LongC, SP, "shalom">>
\* 115 characters, one distinct word out of four
TextRepeated == <<LongA, SP, "Antidisestablishmentarianism", SP, LongA, SP, LongA>>
\* 4 characters, not ASCII
TextShortHebrew == <<"shalom">>
\* 178 characters, not ASCII, two distinct words out of seven
TextRepeatedHebrew == <<"shalom", SP, LongA, SP, LongA, SP, LongA, SP, LongA, SP, LongA, SP, LongA>>

CleanerTexts == {None, TextGood, TextHebrew, TextRepeated, TextShortHebrew, TextRepeatedHebrew}

SeqsUpTo(S, n) == UNION {[1..k -> S] : k \in 0..n}

CleanerTables ==
    {[columns |-> {"id", text_col}, rows |-> rs] :
        rs \in SeqsUpTo({[id |-> 1, transcript |-> t] : t \in CleanerTexts}, MaxTableRows)}
    \cup {[columns |-> {"id"}, rows |-> rs] : rs \in SeqsUpTo({[id |-> 1]}, MaxTableRows)}

RuleArgs == {NoRule, "", "short", "non_english", "repetitive", "long"}

\* cleaner.clean(df)
CleanCall ==
    /\ \E table \in CleanerTables :
         LET res == Clean(table, dropped)
         IN  /\ dropped' = res.dropped
             /\ call' = [op |-> "clean", df |-> table, ret |-> res.df]
    /\ clean_calls' = IF clean_calls = 0 THEN 1 ELSE clean_calls
    /\ UNCHANGED <<sheets, ld_pc, current_sub_topic, sheet_rows, loaded, fileVars>>

\* cleaner.get_dropped(rule)
GetDroppedCall ==
    /\ \E rule \in RuleArgs :
         LET res == GetDropped(dropped, rule)
         IN  call' = [op |-> "get_dropped", rule |-> rule, clean_calls |-> clean_calls,
                      status |-> res.status, ret |-> res.rows]
    /\ UNCHANGED <<sheets, ld_pc, current_sub_topic, sheet_rows, loaded, cleanerVars, fileVars>>

NextCleaner == CleanCall \/ GetDroppedCall

SpecCleaner == Init /\ [][NextCleaner]_vars

-----------------------------------------------------------------------------
(* Claims about TranscriptCleaner *)

Count(rows, r) == Cardinality({i \in 1..Len(rows) : rows[i] = r})

Bucket(rule) == GetDropped(dropped, rule).rows

\* C3 as stated: get_dropped on a cleaner on which clean was never invoked
\* returns an empty result and does not raise, with or without a rule name.
C3_EmptyBeforeClean ==
    (call.op = "get_dropped" /\ call.clean_calls = 0) =>
        (call.status = "ok" /\ call.ret = <<>>)

\* C6: after clean on a table that has the text column every input row is in
\* exactly one of the returned table and the three buckets; a row of the
\* non_english bucket passed the short rule, a row of the repetitive bucket
\* passed the short and the non-English rule.
C6_Waterfall ==
    (call.op = "clean" /\ text_col \in call.df.columns) =>
        LET input == call.df.rows
            short == Bucket("short")
            non_english == Bucket("non_english")
            repetitive == Bucket("repetitive")
            all == call.ret \o short \o non_english \o repetitive
        IN  /\ Len(dropped) = 3
            /\ Len(all) = Len(input)
            /\ \A r \in Range(input) \cup Range(all) : Count(all, r) = Count(input, r)
            /\ \A r \in Range(short) : IsShort(CandidateText(r))
            /\ \A r \in Range(non_english) :
                 ~IsShort(CandidateText(r)) /\ IsNonEnglish(CandidateText(r))
            /\ \A r \in Range(repetitive) :
                 /\ ~IsShort(CandidateText(r)) /\ ~IsNonEnglish(CandidateText(r))
                 /\ IsRepetitive(CandidateText(r))
            /\ \A r \in Range(call.ret) :
                 /\ ~IsShort(CandidateText(r)) /\ ~IsNonEnglish(CandidateText(r))
                 /\ ~IsRepetitive(CandidateText(r))

\* a short non-ASCII row and a long non-ASCII repetitive row were cleaned
C6_Witness ==
    /\ call.op = "clean" /\ text_col \in call.df.columns
    /\ \E r \in Range(Bucket("short")) : IsNonEnglish(CandidateText(r))
    /\ \E r \in Range(Bucket("non_english")) : IsRepetitive(CandidateText(r))

-----------------------------------------------------------------------------
(* FeaturePipeline *)

final_cols == <<"id", "link_id", "main_subject", "sub_topic", "question", "link_cleaned", "transcript">>

\* _validate_inputs with only the workbook path tested
MissingInputsWorkbookOnly(excel, transcripts) ==
    IF excel.exists THEN <<>> ELSE <<"excel_path">>

\* _validate_inputs: the paths that do not exist
MissingInputs(excel, transcripts) ==
    (IF excel.exists THEN <<>> ELSE <<"excel_path">>)
    \o (IF transcripts.exists THEN <<>> ELSE <<"transcripts_path">>)

\* .astype(str).str.strip().str.lower()
JoinKey(link) == Lower(Strip(AsStr(link)))

\* the transcript table passed on as read
DropDuplicateKeysNone(rows) == rows

\* drop_duplicates(subset=['join_key']): the first row of every join key
RECURSIVE DropDuplicateKeys(_)
DropDuplicateKeys(rows) ==
    IF rows = <<>> THEN <<>>
    ELSE LET init == DropDuplicateKeys(SubSeq(rows, 1, Len(rows) - 1))
             last == rows[Len(rows)]
         IN  IF \E i \in 1..Len(init) : init[i].join_key = last.join_key
             THEN init ELSE Append(init, last)

\* pd.merge(df_meta, df_transcripts[['join_key', 'Transcript']], on='join_key', how='left')
\* followed by the rename of 'Transcript'
RECURSIVE Merge(_, _)
Merge(meta, tr) ==
    IF meta = <<>> THEN <<>>
    ELSE LET left == Head(meta)
             widen(t) == [id |-> left.id, main_subject |-> left.main_subject,
                          sub_topic |-> left.sub_topic, question |-> left.question,
                          link |-> left.link, social_network |-> left.social_network,
                          join_key |-> left.join_key, transcript |-> t]
             matches == SelectSeq(tr, LAMBDA r : r.join_key = left.join_key)
         IN  (IF matches = <<>> THEN <<widen(None)>>
              ELSE [i \in 1..Len(matches) |-> widen(matches[i].Transcript)])
             \o Merge(Tail(meta), tr)

\* FeaturePipeline._load_and_merge
LoadAndMerge(excel, transcripts) ==
    IF ~excel.exists
    THEN [status |-> "FileNotFoundError", loader_invoked |-> TRUE, reader_invoked |-> FALSE,
          parsed |-> <<>>, meta |-> <<>>, df |-> <<>>]
    ELSE LET parsed == Load(excel.sheets)
             meta == SelectSeq(parsed, LAMBDA r : r.social_network = "Instagram")
             keyed == [i \in 1..Len(meta) |->
                         [id |-> meta[i].id, main_subject |-> meta[i].main_subject,
                          sub_topic |-> meta[i].sub_topic, question |-> meta[i].question,
                          link |-> meta[i].link, social_network |-> meta[i].social_network,
                          join_key |-> JoinKey(meta[i].link)]]
         IN  IF parsed = <<>>
             \* pd.DataFrame([]) has no column 'social_network'
             THEN [status |-> "KeyError", loader_invoked |-> TRUE, reader_invoked |-> FALSE,
                   parsed |-> parsed, meta |-> <<>>, df |-> <<>>]
             ELSE IF ~transcripts.exists
             THEN [status |-> "FileNotFoundError", loader_invoked |-> TRUE, reader_invoked |-> TRUE,
                   parsed |-> parsed, meta |-> meta, df |-> <<>>]
             ELSE LET link_col == IF "Link" \in transcripts.columns THEN "Link" ELSE "link"
                      tr == [i \in 1..Len(transcripts.rows) |->
                               [join_key |-> JoinKey(transcripts.rows[i][link_col]),
                                Transcript |-> transcripts.rows[i].Transcript]]
                  IN  [status |-> "ok", loader_invoked |-> TRUE, reader_invoked |-> TRUE,
                       parsed |-> parsed, meta |-> meta,
                       df |-> Merge(keyed, DropDuplicateKeys(tr))]

\* FeaturePipeline._clean: the cleaned rows, the new self.cleaner._dropped and the
\* number of rows dropped for a missing transcript
CleanStep(df, old_dropped) ==
    LET replaced == [i \in 1..Len(df) |->
                       [df[i] EXCEPT !.transcript = IF @ = <<"nan">> THEN None ELSE @]]
        present == SelectSeq(replaced, LAMBDA r : r.transcript # None)
        res == Clean([columns |-> {"id", "main_subject", "sub_topic", "question", "link",
                                   "social_network", "join_key", text_col},
                      rows |-> present], old_dropped)
    IN  [df |-> res.df, dropped |-> res.dropped, missing |-> Len(df) - Len(present)]

IsScheme(c) == c \in {"http://", "https://"}

\* the end of the run of non-whitespace that starts at position i
RECURSIVE RunEnd(_, _)
RunEnd(s, i) == IF i < Len(s) /\ ~IsSpace(s[i + 1]) THEN RunEnd(s, i + 1) ELSE i

\* str.extract(r'(https?://\S+)'): the first match, or a missing value
ExtractUrl(link) ==
    LET starts == {i \in 1..(Len(link) - 1) : IsScheme(link[i]) /\ ~IsSpace(link[i + 1])}
    IN  IF link = None \/ starts = {} THEN None
        ELSE LET i == CHOOSE k \in starts : \A j \in starts : k <= j
             IN  SubSeq(link, i, RunEnd(link, i))

\* what `x.encode()` raises on a missing value
AttributeError == <<"AttributeError">>

\* int(hashlib.sha256(...).hexdigest()[:16], 16), an ideal hash
Sha256Prefix(s) == <<"sha256/64", s>>

\* the link_id lambda with a missing link hashed as the empty string
LinkIdOrEmpty(x) == Sha256Prefix(IF x = None THEN <<>> ELSE x)

\* the lambda applied to link_cleaned
LinkId(x) == IF x = None THEN AttributeError ELSE Sha256Prefix(x)

\* FeaturePipeline._postprocess
Postprocess(df) ==
    LET row(i) ==
            [id |-> df[i].id, main_subject |-> df[i].main_subject, sub_topic |-> df[i].sub_topic,
             question |-> IF df[i].question \in {<<"missing question">>, <<"Unknown Question">>}
                          THEN None ELSE df[i].question,
             link |-> df[i].link, social_network |-> df[i].social_network,
             join_key |-> df[i].join_key, transcript |-> df[i].transcript,
             link_cleaned |-> ExtractUrl(df[i].link),
             is_duplicate_id |-> \E j \in 1..Len(df) : j # i /\ df[j].id = df[i].id,
             link_id |-> LinkId(ExtractUrl(df[i].link))]
        out == [i \in 1..Len(df) |-> row(i)]
    IN  IF \E i \in 1..Len(df) : out[i].link_id = AttributeError
        THEN [status |-> "AttributeError", df |-> <<>>]
        ELSE [status |-> "ok", df |-> out]

\* df[self._final_cols]
FinalCols(df) == [i \in 1..Len(df) |-> [c \in Range(final_cols) |-> df[i][c]]]

NoRun == [status |-> "none", loader_invoked |-> FALSE, reader_invoked |-> FALSE,
          parsed |-> 0, non_instagram |-> 0, missing |-> 0, linkless |-> 0,
          dropped_rows |-> 0, df |-> <<>>]

\* _save: the two output files after writing the clean table and the rejects
Save(df, df_dropped) ==
    [output_file |-> File(FinalCols(df)),
     dropped_file |-> IF df_dropped # <<>> THEN File(df_dropped) ELSE dropped_file]

\* FeaturePipeline.run, given what its steps computed on the two input files: what it
\* returns or raises (status, df), what it counted on the way, and the cleaner state
\* and output files it leaves
RunOutcome(excel, transcripts, lm, cl, pp, saved) ==
    LET seen == [NoRun EXCEPT !.loader_invoked = lm.loader_invoked,
                              !.reader_invoked = lm.reader_invoked,
                              !.parsed = Len(lm.parsed),
                              !.non_instagram = Len(lm.parsed) - Len(lm.meta)]
        cleaned == [seen EXCEPT !.missing = cl.missing,
                                !.linkless = Len(SelectSeq(cl.df, LAMBDA r : ExtractUrl(r.link) = None))]
    IN  IF MissingInputs(excel, transcripts) # <<>>
        THEN [ret |-> [NoRun EXCEPT !.status = "FileNotFoundError"],
              dropped |-> dropped, output_file |-> output_file, dropped_file |-> dropped_file]
        ELSE IF lm.status # "ok"
        THEN [ret |-> [seen EXCEPT !.status = lm.status],
              dropped |-> dropped, output_file |-> output_file, dropped_file |-> dropped_file]
        ELSE IF pp.status # "ok"
        THEN [ret |-> [cleaned EXCEPT !.status = pp.status],
              dropped |-> cl.dropped, output_file |-> output_file, dropped_file |-> dropped_file]
        ELSE [ret |-> [cleaned EXCEPT !.status = "ok", !.df = pp.df,
                                      !.dropped_rows = Len(saved.dropped_file.rows)],
              dropped |-> cl.dropped,
              output_file |-> saved.output_file,
              dropped_file |-> saved.dropped_file]

\* pipeline.run() with the input files drawn from the given sets
Run(Workbooks, Tables) ==
    /\ \E excel \in Workbooks, transcripts \in Tables :
       \E lm \in {LoadAndMerge(excel, transcripts)} :
       \E cl \in {CleanStep(lm.df, dropped)} :
       \E pp \in {Postprocess(cl.df)} :
       \E saved \in {Save(pp.df, GetDropped(cl.dropped, NoRule).rows)} :
       \E res \in {RunOutcome(excel, transcripts, lm, cl, pp, saved)} :
             /\ call' = [op |-> "run", excel_exists |-> excel.exists,
                         transcripts_exists |-> transcripts.exists, ret |-> res.ret]
             /\ dropped' = res.dropped
             /\ output_file' = res.output_file
             /\ dropped_file' = res.dropped_file
             /\ clean_calls' = IF res.ret.status \in {"ok", "AttributeError"} THEN 1 ELSE clean_calls
    /\ UNCHANGED <<sheets, ld_pc, current_sub_topic, sheet_rows, loaded>>

-----------------------------------------------------------------------------
(* Input files of run() *)

MaxMetaRows == 2
MaxCsvRows == 1
MaxMergeCsvRows == 2

IgUrl == <<"http://", "instagram", "/a">>
IgUpper == <<"http://", "INSTAGRAM", "/a">>
\* no scheme: the URL pattern does not match
IgBare == <<"instagram", "/a">>
\* a URL inside a sentence
IgSentence == <<"see", SP, "http://", "instagram", "/a", SP, "thanks">>
\* the pattern is case-sensitive: no match either, but the same join key as IgSentence
IgSentenceUpper == <<"see", SP, "HTTP://", "instagram", "/a", SP, "thanks">>
IgPadded == <<SP, "HTTP://", "instagram", "/a", SP>>
YtUrl == <<"http://", "youtu", "/a">>

\* 83 characters, 79 of them between the leading and the trailing whitespace
TextPadded == <<SP, SP>> \o Text79 \o <<SP, SP>>
\* 80 characters, three distinct words
Text80 == <<LongA, SP, LongB, SP, LongC, "s">>

\* 289 characters, three distinct words out of ten
TextThreeOfTen == <<LongA, SP, LongB, SP, LongC, SP, LongA, SP, LongA, SP, LongA, SP, LongA, SP,
                    LongA, SP, LongA, SP, LongA>>

NoWorkbook == [exists |-> FALSE, sheets |-> <<>>]
NoTable == [exists |-> FALSE, columns |-> {}, rows |-> <<>>]

\* workbooks of one two-column sheet: a question in A, a link in B
WorkbookFiles(questions, links) ==
    {[exists |-> TRUE, sheets |-> <<[name |-> "S1", ncols |-> 2, rows |-> rs]>>] :
        rs \in SeqsUpTo({<<a, b>> : a \in questions, b \in links}, MaxMetaRows)}

\* rows of a transcript table whose link column is named `col`
TableRows(col, links, texts) ==
    {[c \in {col, "Transcript"} |-> IF c = col THEN l ELSE t] : l \in links, t \in texts}

\* transcript tables of at most n of the given rows
TableFiles(col, rows, n) ==
    {[exists |-> TRUE, columns |-> {col, "Transcript"}, rows |-> rs] : rs \in SeqsUpTo(rows, n)}

\* run() on inputs that may be absent, may hold other networks and may lack transcripts
RunFiles ==
    Run(WorkbookFiles({None, <<"Q">>}, {IgUrl, YtUrl}) \cup {NoWorkbook},
        TableFiles("Link", TableRows("Link", {IgUrl}, {None, Text79, TextGood}), MaxCsvRows) \cup {NoTable})

SpecRun == Init /\ [][RunFiles]_vars

\* run() on Instagram links with and without a URL match
RunLinks ==
    Run(WorkbookFiles({<<"Q">>}, {IgSentence, IgBare, IgSentenceUpper}),
        TableFiles("Link", TableRows("Link", {IgSentence, IgBare}, {TextGood})
                              \cup TableRows("Link", {IgSentence}, {Text79}), MaxCsvRows))

SpecLinks == Init /\ [][RunLinks]_vars

\* run() on transcripts of every quality
RunTexts ==
    Run(WorkbookFiles({<<"Q">>}, {IgUrl}),
        TableFiles("Link",
                   TableRows("Link", {IgUrl},
                             {None, <<"nan">>, Text79, TextPadded, Text80, TextGood, TextHebrew,
                              TextRepeated, TextShortHebrew, TextRepeatedHebrew, TextThreeOfTen}),
                   MaxCsvRows))

SpecTexts == Init /\ [][RunTexts]_vars

MergeWorkbooks == WorkbookFiles({<<"Q">>}, {IgUrl, IgUpper, YtUrl})

MergeTables ==
    TableFiles("Link", TableRows("Link", {IgUrl, IgPadded, None}, {None, TextGood}), MaxMergeCsvRows)
    \cup TableFiles("link", TableRows("link", {IgUrl, IgPadded, None}, {None, TextGood}), MaxMergeCsvRows)

\* the two files _load_and_merge is about to read
InitMerge ==
    /\ sheets = <<>>
    /\ ld_pc = "load"
    /\ current_sub_topic = DefaultSubTopic
    /\ sheet_rows = <<>>
    /\ loaded = <<>>
    /\ dropped = <<>>
    /\ clean_calls = 0
    /\ \E excel \in MergeWorkbooks, transcripts \in MergeTables :
         call = [op |-> "input", excel |-> excel, transcripts |-> transcripts]
    /\ output_file = NoFile
    /\ dropped_file = NoFile

\* pipeline._load_and_merge()
LoadAndMergeCall ==
    /\ call.op = "input"
    /\ LET res == LoadAndMerge(call.excel, call.transcripts)
       IN  call' = [op |-> "load_and_merge", excel |-> call.excel, transcripts |-> call.transcripts,
                    status |-> res.status, meta |-> res.meta, df |-> res.df]
    /\ UNCHANGED <<sheets, ld_pc, current_sub_topic, sheet_rows, loaded, cleanerVars, fileVars>>

SpecMerge == InitMerge /\ [][LoadAndMergeCall]_vars

-----------------------------------------------------------------------------
(* Claims about FeaturePipeline *)

RunDone == call.op = "run" /\ call.ret.status = "ok"

C8_FailFast ==
    [][(call'.op = "run" /\ ~(call'.excel_exists /\ call'.transcripts_exists)) =>
         /\ call'.ret.status = "FileNotFoundError"
         /\ ~call'.ret.loader_invoked
         /\ ~call'.ret.reader_invoked
         /\ output_file' = output_file
         /\ dropped_file' = dropped_file
         /\ dropped' = dropped]_vars

\* a run without the transcript file, after a run that wrote both output files
C8_Witness ==
    /\ call.op = "run"
    /\ call.excel_exists /\ ~call.transcripts_exists
    /\ call.ret.status = "FileNotFoundError"
    /\ output_file.exists /\ dropped_file.exists

\* C4: a row whose link has no URL match never gets a link_id computed from an
\* empty string: a run that reaches postprocess with such a row fails, and no
\* row of a returned or persisted table without link_cleaned carries a link_id.
C4_NoLinkIdWithoutLink ==
    /\ (call.op = "run" /\ call.ret.linkless > 0) => call.ret.status = "AttributeError"
    /\ \A r \in Range(output_file.rows) \cup (IF call.op = "run" THEN Range(call.ret.df) ELSE {}) :
         /\ r.link_cleaned # None
         /\ r.link_id = Sha256Prefix(r.link_cleaned)
    /\ \A r \in Range(dropped_file.rows) : "link_id" \notin DOMAIN r

\* a run in which two link-less rows survived cleaning, after a run that wrote
\* a clean row whose URL was extracted from a sentence
C4_Witness ==
    /\ call.op = "run"
    /\ call.ret.linkless = 2
    /\ call.ret.status = "AttributeError"
    /\ \E r \in Range(output_file.rows) : r.link_cleaned = IgUrl

FirstTranscript(table, link) ==
    LET col == IF "Link" \in table.columns THEN "Link" ELSE "link"
        hits == {j \in 1..Len(table.rows) :
                    Lower(Strip(AsStr(table.rows[j][col]))) = Lower(Strip(AsStr(link)))}
    IN  IF hits = {} THEN None
        ELSE table.rows[CHOOSE j \in hits : \A k \in hits : j <= k].Transcript

\* C10: load-and-merge yields exactly one merged row per Instagram-filtered
\* record, in order, whose transcript is that of the first transcript row with
\* the record's lowercase(strip(link)), or null when there is none.
C10_OneRowPerRecord ==
    (call.op = "load_and_merge" /\ call.status = "ok") =>
        /\ Len(call.df) = Len(call.meta)
        /\ \A i \in 1..Len(call.meta) :
             /\ i <= Len(call.df)
             /\ call.df[i].id = call.meta[i].id
             /\ call.df[i].link = call.meta[i].link
             /\ call.df[i].transcript = FirstTranscript(call.transcripts, call.meta[i].link)

\* two transcript rows with the same normalized link and different transcripts,
\* two records with that key in different case, and a record filtered out
C10_Witness ==
    /\ call.op = "load_and_merge" /\ call.status = "ok"
    /\ "Link" \in call.transcripts.columns
    /\ Len(call.transcripts.rows) = 2
    /\ call.transcripts.rows[1].Transcript # call.transcripts.rows[2].Transcript
    /\ Len(call.meta) = 2
    /\ call.meta[1].link # call.meta[2].link
    /\ \A i \in 1..2 : call.df[i].transcript = call.transcripts.rows[1].Transcript
    /\ \E j \in 1..2 : call.transcripts.rows[j].Link = IgPadded

====
